---- MODULE Spec2Model ----
(***************************************************************************)
(* Volatility screener and plot-window engine of app_public.py.            *)
(*                                                                         *)
(* Dates are proleptic Gregorian day ordinals (0001-01-01 is 1), as        *)
(* datetime.date.toordinal gives them.  Volatility values are non-negative *)
(* integers (a fixed-point scale of the decimal fractions of the data);    *)
(* NaN is the missing value.  Quotients (iv_rank, iv_hv_ratio) are kept as *)
(* exact fractions [num, den]; a fraction with den = 0 is NaN.             *)
(*                                                                         *)
(* The frequency aliases are resolved as pandas 2.2 resolves them, the     *)
(* only release line that accepts both "1YE" (line 31) and "5Y", "1Y",     *)
(* "6M", "1M" (line 79): "Y"/"YE" is YearEnd, "M" is MonthEnd.             *)
(***************************************************************************)
EXTENDS Integers, Sequences, FiniteSets, TLC

\* ------------------------------------------------------------------ bounds
\* at most this many parquet files in the data directory
MaxTickers == 3
\* volatility values range over 0..MaxVal (and NaN)
MaxVal == 2
\* a sparse plot series holds at most this many observations
MaxObs == 3

\* -------------------------------------------------------- program constants
\* len(df_1y) < 20
MinObs == 20
\* np.nan, the missing float
NaN == -1
\* pd.NaT, index.max() of an empty DatetimeIndex
NaT == 0

HV == "HV_30D"
IV == "IV_30D"

\* ---------------------------------------------------------------- calendar
IsLeap(y) == (y % 4 = 0 /\ y % 100 # 0) \/ y % 400 = 0

DaysInMonth(y, m) ==
    IF m = 2 THEN (IF IsLeap(y) THEN 29 ELSE 28)
    ELSE IF m \in {4, 6, 9, 11} THEN 30 ELSE 31

DaysBeforeYear(y) ==
    (y - 1) * 365 + ((y - 1) \div 4) - ((y - 1) \div 100) + ((y - 1) \div 400)

RECURSIVE DaysBeforeMonth(_, _)
DaysBeforeMonth(y, m) ==
    IF m = 1 THEN 0 ELSE DaysBeforeMonth(y, m - 1) + DaysInMonth(y, m - 1)

\* Timestamp(year, month, day) as a day ordinal
Date(y, m, d) == DaysBeforeYear(y) + DaysBeforeMonth(y, m) + d

\* Timestamp.year / .month
YearOf(o) ==
    CHOOSE y \in (o \div 366)..((o \div 365) + 1) :
        DaysBeforeYear(y) < o /\ o <= DaysBeforeYear(y + 1)

MonthOf(o) ==
    LET y == YearOf(o)
        n == o - DaysBeforeYear(y)
    IN  CHOOSE m \in 1..12 :
            DaysBeforeMonth(y, m) < n /\ n <= DaysBeforeMonth(y, m) + DaysInMonth(y, m)

\* ----------------------------------------------------------------- offsets
\* pd.tseries.frequencies.to_offset(period): the count and the anchored
\* offset class the alias names
to_offset(period) ==
    CASE period = "1YE" -> [n |-> 1, kind |-> "YearEnd"]
      [] period = "5Y"  -> [n |-> 5, kind |-> "YearEnd"]
      [] period = "1Y"  -> [n |-> 1, kind |-> "YearEnd"]
      [] period = "6M"  -> [n |-> 6, kind |-> "MonthEnd"]
      [] period = "1M"  -> [n |-> 1, kind |-> "MonthEnd"]

\* Timestamp - YearEnd(n): roll back n year ends; every step lands on
\* 31 December, the first one on the 31 December before the timestamp
SubYearEnd(ts, n) == Date(YearOf(ts) - n, 12, 31)

\* Timestamp - MonthEnd(n): roll back n month ends, the first one to the last
\* day of the month before the timestamp's
SubMonthEnd(ts, n) ==
    LET t == YearOf(ts) * 12 + (MonthOf(ts) - 1) - n
        y == t \div 12
        m == (t % 12) + 1
    IN  Date(y, m, DaysInMonth(y, m))

\* ts - offset; NaT stays NaT
SubOffset(ts, off) ==
    IF ts = NaT THEN NaT
    ELSE IF off.kind = "YearEnd" THEN SubYearEnd(ts, off.n)
    ELSE SubMonthEnd(ts, off.n)

\* -------------------------------------------------------------- data frames
\* A parquet file of the data directory: whether pd.read_parquet can read it,
\* the kind of its index, its columns, and its rows in index order.
NoFrame == [index |-> "datetime", cols |-> {}, rows |-> <<>>]

\* pd.read_parquet(file_path): the frame, or an exception
read_parquet(file) ==
    IF file.status = "ok"
    THEN [exc |-> FALSE, df |-> [index |-> file.index, cols |-> file.cols, rows |-> file.rows]]
    ELSE [exc |-> TRUE, df |-> NoFrame]

Dates(rows) == {rows[i].date : i \in DOMAIN rows}

\* vol_data.index.max() of a DatetimeIndex
IndexMax(rows) ==
    IF rows = <<>> THEN NaT
    ELSE LET D == Dates(rows) IN CHOOSE d \in D : \A e \in D : e <= d

\* vol_data[vol_data.index >= start]; no date is >= NaT
RowsFrom(rows, start) ==
    IF start = NaT THEN <<>>
    ELSE SelectSeq(rows, LAMBDA r : r.date >= start)

\* vol_data[vol_data.index.year == year]
RowsOfYear(rows, year) == SelectSeq(rows, LAMBDA r : YearOf(r.date) = year)

\* df[column] as a sequence of values
Column(rows, c) == [i \in DOMAIN rows |-> IF c = HV THEN rows[i].hv ELSE rows[i].iv]

\* Series.min() / Series.max(), NaN skipped; NaN when nothing is left
Defined(s) == {s[i] : i \in DOMAIN s} \ {NaN}

SeriesMin(s) ==
    LET D == Defined(s) IN
    IF D = {} THEN NaN ELSE CHOOSE m \in D : \A x \in D : m <= x

SeriesMax(s) ==
    LET D == Defined(s) IN
    IF D = {} THEN NaN ELSE CHOOSE m \in D : \A x \in D : x <= m

\* ----------------------------------------------------------------- metrics
NaNFrac == [num |-> 0, den |-> 0]

isna(f) == f.den = 0

\* a - b on floats: NaN if either is
FSub(a, b) == IF a = NaN \/ b = NaN THEN NaN ELSE a - b

\* a / b on floats, b > 0 or b # 0 already checked by the caller
FDiv(a, b) == IF a = NaN \/ b = NaN \/ b = 0 THEN NaNFrac ELSE [num |-> a, den |-> b]

\* line 32: vol_data[vol_data.index >= vol_data.index.max() - offset]
Window1Y(rows) == RowsFrom(rows, SubOffset(IndexMax(rows), to_offset("1YE")))

\* line 33: the eligibility gate; TRUE means `continue`
Gate(df_1y, cols) ==
    df_1y = <<>> \/ cols = {} \/ IV \notin cols \/ HV \notin cols \/ Len(df_1y) < MinObs

\* line 36: iv_series.iloc[-1]
CurrentIvFirst(iv_series) == iv_series[1]

CurrentIv(iv_series) == iv_series[Len(iv_series)]

\* lines 39-40
IvRank(current_iv, iv_low, iv_high) ==
    IF FSub(iv_high, iv_low) # NaN /\ FSub(iv_high, iv_low) > 0
    THEN FDiv(FSub(current_iv, iv_low), FSub(iv_high, iv_low))
    ELSE NaNFrac

\* line 42
IvHvRatio(current_iv, current_hv) ==
    IF ~(current_hv = NaN \/ current_hv = 0)
    THEN FDiv(current_iv, current_hv)
    ELSE NaNFrac

\* line 43: TRUE means `continue`
UndefinedRankOnly(iv_rank, iv_hv_ratio) == isna(iv_rank)

UndefinedMetric(iv_rank, iv_hv_ratio) == isna(iv_rank) \/ isna(iv_hv_ratio)

\* lines 35-48: the metrics of a window that passed the gate
Metrics(ticker, df_1y) ==
    LET iv_series  == Column(df_1y, IV)
        current_iv == CurrentIv(iv_series)
        iv_low     == SeriesMin(iv_series)
        iv_high    == SeriesMax(iv_series)
        current_hv == Column(df_1y, HV)[Len(df_1y)]
    IN  [Ticker |-> ticker, CurrentIV |-> current_iv,
         IVRank |-> IvRank(current_iv, iv_low, iv_high),
         IVHVRatio |-> IvHvRatio(current_iv, current_hv)]

NoRow == [Ticker |-> 0, CurrentIV |-> NaN, IVRank |-> NaNFrac, IVHVRatio |-> NaNFrac]

\* lines 30-48, the body of the try: what one file comes to.
\*   "exception"  an exception left the body (read_parquet at line 30, the
\*                index arithmetic of line 32 on an index that is no
\*                DatetimeIndex)
\*   "gate"       `continue` at line 34
\*   "undefined"  `continue` at line 44 (the metrics computed are kept in row)
\*   "row"        results.append at line 45
ScanFile(ticker, file) ==
    LET rd == read_parquet(file) IN
    IF rd.exc \/ rd.df.index # "datetime"
    THEN [kind |-> "exception", row |-> NoRow]
    ELSE LET df_1y == Window1Y(rd.df.rows) IN
         IF Gate(df_1y, rd.df.cols)
         THEN [kind |-> "gate", row |-> NoRow]
         ELSE LET row == Metrics(ticker, df_1y) IN
              IF UndefinedMetric(row.IVRank, row.IVHVRatio)
              THEN [kind |-> "undefined", row |-> row]
              ELSE [kind |-> "row", row |-> row]

\* lines 29, 49-50: try ... except Exception: continue
ScanFileNoExcept(ticker, file) == ScanFile(ticker, file)

TryScanFile(ticker, file) ==
    LET r == ScanFile(ticker, file) IN
    IF r.kind = "exception" THEN [kind |-> "skipped", row |-> NoRow] ELSE r

\* ------------------------------------------------------------------ inputs
Vals == {NaN} \cup (0..MaxVal)

\* A dense daily series of n observations ending at `last`: iv is ivBody
\* throughout, ivPrev on the day before the last, ivLast on the last day;
\* hv is 1 throughout and hvLast on the last day.
DenseRows(last, n, ivBody, ivPrev, ivLast, hvLast) ==
    [i \in 1..n |->
        [date |-> last - (n - i),
         hv   |-> IF i = n THEN hvLast ELSE 1,
         iv   |-> IF i = n THEN ivLast ELSE IF i = n - 1 THEN ivPrev ELSE ivBody]]

\* (last date, length): the window of line 32 starts on 31 December 2023, so
\* the series ending 18 January keeps 19 of its rows and the one ending
\* 19 January keeps 20.
DenseShapes ==
    { <<Date(2024, 1, 18), MinObs + 5>>, <<Date(2024, 1, 19), MinObs + 5>>,
      <<Date(2024, 6, 28), MinObs - 1>>, <<Date(2024, 6, 28), MinObs>>,
      <<Date(2024, 12, 31), MinObs + 1>> }

OkFile(index, cols, rows) ==
    [status |-> "ok", index |-> index, cols |-> cols, rows |-> rows]

DenseFiles ==
    { OkFile("datetime", {HV, IV}, DenseRows(sh[1], sh[2], b, p, l, h)) :
        sh \in DenseShapes, b \in Vals, p \in Vals, l \in Vals, h \in Vals }

\* One observation on 31 December 2023 followed by 19 daily observations
\* ending 31 December 2024: the first lies 366 days before the last, outside
\* the trailing 365.25 days, and on the start of the window of line 32.
LeadFiles ==
    { OkFile("datetime", {HV, IV},
             <<[date |-> Date(2023, 12, 31), hv |-> 1, iv |-> b]>>
                 \o DenseRows(Date(2024, 12, 31), MinObs - 1, b, b, l, h)) :
        b \in Vals, l \in Vals, h \in Vals }

\* Dates a sparse series draws from: around the year-end and month-end
\* anchors and the fixed-duration cut-offs of a series ending 14 June 2024 or
\* 19 January 2024.
CandDates ==
    { Date(2018, 12, 31), Date(2019, 6, 15), Date(2023, 6, 15), Date(2023, 12, 1),
      Date(2023, 12, 31), Date(2024, 1, 1), Date(2024, 1, 19), Date(2024, 5, 15),
      Date(2024, 5, 31), Date(2024, 6, 14) }

RECURSIVE SortedSeq(_)
SortedSeq(S) ==
    IF S = {} THEN <<>>
    ELSE LET m == CHOOSE x \in S : \A y \in S : x <= y
         IN  <<m>> \o SortedSeq(S \ {m})

SparseRows(S, iv) ==
    LET ds == SortedSeq(S) IN [i \in DOMAIN ds |-> [date |-> ds[i], hv |-> 1, iv |-> iv]]

\* columns and IV value of a sparse series: both columns with IV, both with no
\* IV recorded yet, HV only, IV only
SparseKinds == { <<{HV, IV}, 1>>, <<{HV, IV}, NaN>>, <<{HV}, NaN>>, <<{IV}, 1>> }

SparseFiles ==
    { OkFile("datetime", k[1], SparseRows(S, k[2])) :
        S \in {T \in SUBSET CandDates : Cardinality(T) <= MaxObs},
        k \in SparseKinds }

\* Files whose reading or whose index fails, or that lack a column.
OddFiles ==
    { [status |-> "unreadable", index |-> "datetime", cols |-> {}, rows |-> <<>>],
      OkFile("range", {HV, IV}, <<>>),
      OkFile("range", {HV, IV}, DenseRows(MinObs, MinObs, 0, MaxVal, 1, 1)) }
    \cup { OkFile("datetime", c, DenseRows(Date(2024, 6, 28), MinObs, 0, MaxVal, 1, 1)) :
             c \in {{HV}, {IV}} }

\* the files a scanned directory of one file draws from
RichFiles == DenseFiles \cup LeadFiles \cup SparseFiles \cup OddFiles

\* the files a plotted ticker draws from
PlotFiles == SparseFiles \cup OddFiles

\* the files a directory of several files draws from: rank 0 (with ratio 0),
\* rank 1, an unreadable file, a flat IV history
CoreFiles ==
    { OkFile("datetime", {HV, IV}, DenseRows(Date(2024, 6, 28), MinObs, 0, MaxVal, l, 1)) :
        l \in {0, MaxVal} }
    \cup { [status |-> "unreadable", index |-> "datetime", cols |-> {}, rows |-> <<>>],
           OkFile("datetime", {HV, IV}, DenseRows(Date(2024, 6, 28), MinObs, 1, 1, 1, 1)) }

\* wall-clock years datetime.now() may give
NowYears == {2023, 2024, 2025}

\* all orders os.listdir may list n files in
Listings(n) ==
    {p \in [1..n -> 1..n] : \A i, j \in 1..n : i # j => p[i] # p[j]}

\* ------------------------------------------------------------------- state
VARIABLES
    call,       \* the entry point run: "build_df" or "plot"
    data_dir,   \* DATA_DIR: "dir" (a directory that lists), "missing", or
                \* "unlistable" (it exists but os.listdir fails: a regular
                \* file, a directory without read permission)
    files,      \* ticker -> the parquet file DATA_DIR holds for it
    listing,    \* os.listdir(DATA_DIR), the .parquet files, as tickers
    pc,         \* where the run stands
    idx,        \* the file the scan loop is at
    results,    \* build_df_from_local_cache: results
    outcome,    \* ticker -> how its iteration of the scan ended, and its metrics
    final,      \* final_df_sorted
    raised,     \* an exception left the entry point
    sel,        \* plot_volatility_analysis: ticker
    vol_data,   \* plot_volatility_analysis: vol_data
    panels,     \* the axes drawn so far, in order
    now         \* datetime.now().year as the YTD panel read it (0: not read)

vars == <<call, data_dir, files, listing, pc, idx, results, outcome, final, raised,
          sel, vol_data, panels, now>>

Init ==
    /\ \/ /\ call = "build_df"
          /\ data_dir = "dir"
          /\ \E n \in 0..MaxTickers :
               /\ files \in [1..n -> IF n <= 1 THEN RichFiles ELSE CoreFiles]
               /\ listing \in Listings(n)
       \/ /\ call = "build_df"
          /\ data_dir = "unlistable"
          /\ \E n \in 0..1 :
               /\ files \in [1..n -> CoreFiles]
               /\ listing \in Listings(n)
       \/ /\ call = "plot"
          /\ data_dir = "dir"
          /\ \E n \in 0..1 :
               /\ files \in [1..n -> PlotFiles]
               /\ listing \in Listings(n)
       \/ /\ call \in {"build_df", "plot"}
          /\ data_dir \in {"missing", "unlistable"}
          /\ files = <<>>
          /\ listing = <<>>
    /\ pc = "start"
    /\ idx = 1
    /\ results = <<>>
    /\ outcome = [t \in DOMAIN files |-> [kind |-> "pending", row |-> NoRow]]
    /\ final = <<>>
    /\ raised = FALSE
    /\ sel = 1
    /\ vol_data = NoFrame
    /\ panels = <<>>
    /\ now = 0

\* ------------------------------------------------ build_df_from_local_cache
\* lines 20-25: results = []; a missing DATA_DIR returns the empty frame at
\* line 24; os.listdir at line 25 is outside every try, so a DATA_DIR that
\* exists and cannot be listed raises out of the function.
ListDir ==
    /\ pc = "start" /\ call = "build_df"
    /\ IF data_dir = "missing"
       THEN pc' = "returned" /\ UNCHANGED raised
       ELSE IF data_dir = "unlistable"
       THEN pc' = "raised" /\ raised' = TRUE
       ELSE pc' = "scan" /\ UNCHANGED raised
    /\ UNCHANGED <<call, data_dir, files, listing, idx, results, outcome, final,
                   sel, vol_data, panels, now>>

\* lines 26-50: one iteration of the loop, its try and its handler
ProcessFile ==
    /\ pc = "scan" /\ idx <= Len(listing)
    /\ LET ticker == listing[idx]
           r      == TryScanFile(ticker, files[ticker])
       IN  IF r.kind = "exception"
           THEN /\ raised' = TRUE
                /\ pc' = "raised"
                /\ UNCHANGED <<idx, results, outcome>>
           ELSE /\ results' = IF r.kind = "row" THEN Append(results, r.row) ELSE results
                /\ outcome' = [outcome EXCEPT ![ticker] = r]
                /\ idx' = idx + 1
                /\ UNCHANGED <<pc, raised>>
    /\ UNCHANGED <<call, data_dir, files, listing, final, sel, vol_data, panels, now>>

\* line 51: return pd.DataFrame(results) if results else pd.DataFrame()
ReturnFrame ==
    /\ pc = "scan" /\ idx > Len(listing)
    /\ pc' = "returned"
    /\ UNCHANGED <<call, data_dir, files, listing, idx, results, outcome, final, raised,
                   sel, vol_data, panels, now>>

\* ------------------------------------------------------------- main script
\* a.IVRank > b.IVRank, both defined
RankGT(a, b) == a.IVRank.num * b.IVRank.den > b.IVRank.num * a.IVRank.den

\* row a must come before row b in a descending sort with NaN last
MustPrecede(a, b) ==
    \/ ~isna(a.IVRank) /\ isna(b.IVRank)
    \/ ~isna(a.IVRank) /\ ~isna(b.IVRank) /\ RankGT(a, b)

\* df.sort_values(by="IV Rank (1Y)", ascending=False): kind is left at its
\* default, "quicksort", which promises no order among equal keys; every
\* descending arrangement is an outcome.
sort_values(df) ==
    { s \in { [i \in DOMAIN df |-> df[p[i]]] : p \in Listings(Len(df)) } :
        \A i, j \in DOMAIN s : i < j => ~MustPrecede(s[j], s[i]) }

\* .dropna(subset=['IV Rank (1Y)'])
dropna(df) == SelectSeq(df, LAMBDA r : ~isna(r.IVRank))

\* lines 136-137: full_df.empty
ShowUnavailable ==
    /\ pc = "returned" /\ results = <<>>
    /\ pc' = "unavailable"
    /\ UNCHANGED <<call, data_dir, files, listing, idx, results, outcome, final, raised,
                   sel, vol_data, panels, now>>

\* line 139
SortResults ==
    /\ pc = "returned" /\ results # <<>>
    /\ \E s \in sort_values(results) : final' = dropna(s)
    /\ pc' = "display"
    /\ UNCHANGED <<call, data_dir, files, listing, idx, results, outcome, raised,
                   sel, vol_data, panels, now>>

\* ------------------------------------------------ plot_volatility_analysis
\* line 79
timeframes ==
    << [name |-> "5 Years", period |-> "5Y"], [name |-> "1 Year", period |-> "1Y"],
       [name |-> "6 Months", period |-> "6M"], [name |-> "YTD", period |-> "YTD"],
       [name |-> "1 Month", period |-> "1M"] >>

\* lines 87-94, the body of the try: the rows selected, or an exception
\* (.year and the offset arithmetic need a DatetimeIndex)
Resolve(df, period, current_year) ==
    IF df.index # "datetime"
    THEN [exc |-> TRUE, rows |-> <<>>]
    ELSE IF period = "YTD"
    THEN [exc |-> FALSE, rows |-> RowsOfYear(df.rows, current_year)]
    ELSE [exc |-> FALSE,
          rows |-> RowsFrom(df.rows, SubOffset(IndexMax(df.rows), to_offset(period)))]

\* lines 84-96: try ... except Exception: plot_data = pd.DataFrame()
ResolveNoExcept(df, period, current_year) == Resolve(df, period, current_year)

TryResolve(df, period, current_year) ==
    LET r == Resolve(df, period, current_year) IN
    IF r.exc THEN [exc |-> FALSE, rows |-> <<>>] ELSE r

\* plot_data.empty: no rows or no columns
IsEmpty(rows, cols) == rows = <<>> \/ cols = {}

\* line 102
IvPlotted(rows, cols) ==
    IV \in cols /\ ~(\A i \in DOMAIN rows : rows[i].iv = NaN)

\* lines 72-77: the file is looked up and read outside any try
PlotOpen ==
    /\ pc = "start" /\ call = "plot"
    /\ \E ticker \in {1} :
         /\ sel' = ticker
         /\ IF ticker \notin DOMAIN files
            THEN /\ pc' = "plot_unavailable"
                 /\ UNCHANGED <<vol_data, raised>>
            ELSE LET rd == read_parquet(files[ticker]) IN
                 IF rd.exc
                 THEN /\ raised' = TRUE
                      /\ pc' = "raised"
                      /\ UNCHANGED vol_data
                 ELSE /\ vol_data' = rd.df
                      /\ pc' = "panels"
                      /\ UNCHANGED raised
    /\ UNCHANGED <<call, data_dir, files, listing, idx, results, outcome, final, panels, now>>

\* lines 83-112: one iteration of the loop over the timeframes
PlotPanel ==
    /\ pc = "panels" /\ Len(panels) < Len(timeframes)
    /\ LET tf == timeframes[Len(panels) + 1] IN
       \E current_year \in IF tf.period = "YTD" THEN NowYears ELSE {now} :
         LET r == TryResolve(vol_data, tf.period, current_year) IN
         IF r.exc \/ (~IsEmpty(r.rows, vol_data.cols) /\ HV \notin vol_data.cols)
         THEN /\ raised' = TRUE
              /\ pc' = "raised"
              /\ now' = current_year
              /\ UNCHANGED panels
         ELSE /\ panels' = Append(panels,
                    [name |-> tf.name,
                     nodata |-> IsEmpty(r.rows, vol_data.cols),
                     rows |-> IF IsEmpty(r.rows, vol_data.cols) THEN <<>> ELSE r.rows,
                     iv |-> ~IsEmpty(r.rows, vol_data.cols) /\ IvPlotted(r.rows, vol_data.cols)])
              /\ now' = current_year
              /\ UNCHANGED <<pc, raised>>
    /\ UNCHANGED <<call, data_dir, files, listing, idx, results, outcome, final, sel, vol_data>>

\* lines 114-115: return fig
PlotReturn ==
    /\ pc = "panels" /\ Len(panels) = Len(timeframes)
    /\ pc' = "plotted"
    /\ UNCHANGED <<call, data_dir, files, listing, idx, results, outcome, final, raised,
                   sel, vol_data, panels, now>>

Next ==
    \/ ListDir
    \/ ProcessFile
    \/ ReturnFrame
    \/ ShowUnavailable
    \/ SortResults
    \/ PlotOpen
    \/ PlotPanel
    \/ PlotReturn

Spec == Init /\ [][Next]_vars

\* ================================================================== claims
Scanned(t) == t \in DOMAIN outcome /\ outcome[t].kind # "pending"

\* the file of ticker t was read into a frame with a DatetimeIndex
Readable(t) == files[t].status = "ok" /\ files[t].index = "datetime"

\* the tickers of the rows of a frame
TickersOf(df) == {df[i].Ticker : i \in DOMAIN df}

\* four times the duration of a rolling spec in days: a year is 365.25 days,
\* a month 30 days
Duration4(period) ==
    CASE period \in {"5Y"} -> 5 * 1461
      [] period \in {"1Y", "1YE"} -> 1461
      [] period = "6M" -> 4 * 180
      [] period = "1M" -> 4 * 30

\* the observations dated within [max - d, max]
TrailingRows(rows, period) ==
    SelectSeq(rows, LAMBDA r : 4 * r.date >= 4 * IndexMax(rows) - Duration4(period))

RollingPanels == {i \in DOMAIN timeframes : timeframes[i].period # "YTD"}

\* C1: for a non-empty series every rolling window, in the drawn panels and in
\* the screener's trailing year, is exactly the observations dated within
\* [max - d, max], d the fixed duration of the spec.
C1_RollingWindowIsTrailingDuration ==
    /\ \A i \in DOMAIN panels :
         (i \in RollingPanels /\ vol_data.index = "datetime" /\ vol_data.rows # <<>>)
            => panels[i].rows = TrailingRows(vol_data.rows, timeframes[i].period)
    /\ \A t \in DOMAIN files :
         (Scanned(t) /\ Readable(t) /\ files[t].rows # <<>>)
            => Window1Y(files[t].rows) = TrailingRows(files[t].rows, "1YE")

\* C2: the YTD panel of a non-empty series holds exactly the observations of
\* the year of the latest date, whatever the wall clock says, and so is never
\* in the "no data" state.
C2_YtdFollowsLatestDate ==
    (Len(panels) >= 4 /\ vol_data.index = "datetime" /\ vol_data.rows # <<>>)
        => /\ panels[4].rows = RowsOfYear(vol_data.rows, YearOf(IndexMax(vol_data.rows)))
           /\ ~panels[4].nodata

\* C3 as claimed: past the gate, iv_rank is undefined exactly when the window's
\* IV maximum equals its minimum, and is otherwise in [0,1], an undefined last
\* IV included.
C3_Original_UndefinedIffFlat ==
    \A t \in DOMAIN files :
        (Scanned(t) /\ outcome[t].kind \in {"undefined", "row"})
            => LET iv == Column(Window1Y(files[t].rows), IV)
                   rank == outcome[t].row.IVRank
               IN  /\ isna(rank) <=> (SeriesMax(iv) = SeriesMin(iv))
                   /\ ~isna(rank) => (0 <= rank.num /\ rank.num <= rank.den)

\* C3 as amended: past the gate, iv_rank is undefined exactly when the window's
\* IV maximum equals its minimum (no defined IV at all included) or the last
\* observation's IV is undefined; otherwise it is in [0,1].
C3_UndefinedIffFlatOrLastMissing ==
    \A t \in DOMAIN files :
        (Scanned(t) /\ outcome[t].kind \in {"undefined", "row"})
            => LET iv == Column(Window1Y(files[t].rows), IV)
                   rank == outcome[t].row.IVRank
               IN  /\ isna(rank) <=> (SeriesMax(iv) = SeriesMin(iv) \/ iv[Len(iv)] = NaN)
                   /\ ~isna(rank) => (0 <= rank.num /\ rank.num <= rank.den)

\* C3 witness: a scanned ticker past the gate whose IV varies over the window
\* and whose last IV is undefined
C3_Witness ==
    \E t \in DOMAIN files :
        /\ Scanned(t) /\ outcome[t].kind = "undefined"
        /\ LET iv == Column(Window1Y(files[t].rows), IV)
           IN  SeriesMax(iv) # SeriesMin(iv) /\ iv[Len(iv)] = NaN

\* position of ticker t in the frame the scan returned
PosIn(df, t) == CHOOSE i \in DOMAIN df : df[i].Ticker = t

\* C4: the output is sorted by iv_rank descending, rows of equal iv_rank keep
\* the order the scan appended them in, and the rows are those of the eligible
\* tickers whatever the listing order.
C4_SortedDescendingStable ==
    pc = "display"
        => /\ TickersOf(final) = {t \in DOMAIN files : ScanFile(t, files[t]).kind = "row"}
           /\ \A i, j \in DOMAIN final :
                i < j => \/ RankGT(final[i], final[j])
                         \/ /\ ~RankGT(final[j], final[i])
                            /\ PosIn(results, final[i].Ticker) < PosIn(results, final[j].Ticker)

\* what the scan of a listing appends, file by file, with no handler involved
RECURSIVE RowsOfListing(_)
RowsOfListing(l) ==
    IF l = <<>> THEN <<>>
    ELSE LET r == ScanFile(Head(l), files[Head(l)])
         IN  (IF r.kind = "row" THEN <<r.row>> ELSE <<>>) \o RowsOfListing(Tail(l))

Fails(t) == ScanFile(t, files[t]).kind = "exception"

\* C5: for every set of tickers listed (DATA_DIR missing, or listed by
\* os.listdir) no exception leaves the scan, whatever fails in a ticker's
\* file; a ticker whose file fails is skipped and the frame returned is the one
\* the scan of the directory without the failing tickers returns; with no
\* eligible ticker the result is the empty frame.
C5_PartialFailureIsolation ==
    call = "build_df"
        => /\ data_dir # "unlistable" => ~raised
           /\ pc \in {"returned", "display", "unavailable"}
                => /\ results = RowsOfListing(SelectSeq(listing, LAMBDA t : ~Fails(t)))
                   /\ \A t \in DOMAIN files : Fails(t) => outcome[t].kind = "skipped"
           /\ pc = "unavailable" => (results = <<>> /\ final = <<>>)

\* C5 witness: the scan returned rows although a file of the directory failed
C5_Witness ==
    /\ pc = "returned" /\ results # <<>>
    /\ \E t \in DOMAIN files : Fails(t) /\ outcome[t].kind = "skipped"

\* C6: plot_volatility_analysis raises for no ticker and no file content: an
\* existing file gives five panels in the fixed order, a missing one the
\* "unavailable" outcome.
C6_PlotNeverRaises ==
    call = "plot"
        => /\ ~raised
           /\ (pc # "start" /\ sel \notin DOMAIN files) => pc = "plot_unavailable"
           /\ pc = "plotted"
                => /\ Len(panels) = 5
                   /\ \A i \in 1..5 : panels[i].name = timeframes[i].name

\* C7: a ticker with fewer than 20 observations dated within the trailing
\* year [max - 365.25 days, max] ends at the gate and has no row in the output,
\* whatever its values; with 20 or more such observations and both columns it
\* passes the gate.
C7_FewerThanTwentyIneligible ==
    \A t \in DOMAIN files :
        (Scanned(t) /\ Readable(t) /\ files[t].rows # <<>>)
            => LET trailing == TrailingRows(files[t].rows, "1YE") IN
               /\ Len(trailing) < 20
                    => /\ outcome[t].kind = "gate"
                       /\ t \notin TickersOf(results) \cup TickersOf(final)
               /\ (Len(trailing) >= 20 /\ files[t].cols = {HV, IV})
                    => outcome[t].kind \in {"undefined", "row"}

DefinedRank(row) ==
    ~isna(row.IVRank) /\ 0 <= row.IVRank.num /\ row.IVRank.num <= row.IVRank.den

\* C8 as claimed: every row returned or displayed has a defined iv_rank in
\* [0,1] and a defined, positive iv_hv_ratio; a ticker with an undefined
\* metric has no row.
C8_Original_RatioPositive ==
    /\ \A df \in {results, final} : \A i \in DOMAIN df :
         /\ DefinedRank(df[i])
         /\ df[i].IVHVRatio.num > 0 /\ df[i].IVHVRatio.den > 0
    /\ \A t \in DOMAIN files :
         (Scanned(t) /\ outcome[t].kind = "undefined")
            => t \notin TickersOf(results) \cup TickersOf(final)

\* C8 as amended: every row returned or displayed has a defined iv_rank in
\* [0,1] and a defined iv_hv_ratio that is not negative (zero when the current
\* IV is zero); a ticker with an undefined metric has no row.
C8_RowsDefinedRatioNonNegative ==
    /\ \A df \in {results, final} : \A i \in DOMAIN df :
         /\ DefinedRank(df[i])
         /\ df[i].IVHVRatio.num >= 0 /\ df[i].IVHVRatio.den > 0
         /\ (df[i].IVHVRatio.num = 0 <=> df[i].CurrentIV = 0)
    /\ \A t \in DOMAIN files :
         (Scanned(t) /\ outcome[t].kind = "undefined")
            => t \notin TickersOf(results) \cup TickersOf(final)

\* C8 witness: the sorted output holds a row whose ratio is zero while another
\* ticker was dropped for an undefined metric
C8_Witness ==
    /\ pc = "display"
    /\ \E i \in DOMAIN final : final[i].IVHVRatio.num = 0
    /\ \E t \in DOMAIN files : outcome[t].kind = "undefined"

\* C9: on an empty series no timeframe raises: each of the five panels is in
\* the "no data" state, and the screener leaves the ticker out.
C9_EmptySeriesResolvesEmpty ==
    /\ (call = "plot" /\ sel \in DOMAIN files /\ files[sel].status = "ok"
            /\ files[sel].rows = <<>>)
         => /\ ~raised
            /\ \A i \in DOMAIN panels : panels[i].nodata /\ panels[i].rows = <<>>
            /\ pc = "plotted" => Len(panels) = 5
    /\ \A t \in DOMAIN files :
         (call = "build_df" /\ data_dir = "dir" /\ files[t].status = "ok"
            /\ files[t].rows = <<>>)
            => /\ ~raised
               /\ Scanned(t) => outcome[t].kind \in {"gate", "skipped"}
               /\ t \notin TickersOf(results) \cup TickersOf(final)

\* C9 witness: the figure of an empty series was returned with its five panels
C9_Witness ==
    /\ call = "plot" /\ pc = "plotted" /\ Len(panels) = 5
    /\ sel \in DOMAIN files /\ files[sel].status = "ok" /\ files[sel].rows = <<>>

\* the earliest date of a non-empty series
IndexMin(rows) == CHOOSE d \in Dates(rows) : \A e \in Dates(rows) : d <= e

\* C10: for a series spanning at most two months (60 days) the "5 Years",
\* "1 Year" and "6 Months" panels hold the whole series and the "1 Month" panel
\* the observations of the last 30 days.
C10_ShortSeriesPanels ==
    (pc = "plotted" /\ vol_data.index = "datetime" /\ vol_data.rows # <<>>
        /\ IndexMax(vol_data.rows) - IndexMin(vol_data.rows) <= 60)
        => /\ \A i \in 1..3 : panels[i].rows = vol_data.rows
           /\ panels[5].rows = TrailingRows(vol_data.rows, "1M")

====
